---- MODULE Spec2Model ----
(***************************************************************************)
(* The DSR maintenance buffer (ns3::dsr::DsrMaintainBuffer): a bounded,    *)
(* time-evicting vector of entries awaiting next-hop confirmation, with    *)
(* its insertion, lookup, removal and four matching operations.            *)
(***************************************************************************)
EXTENDS Integers, Sequences, FiniteSets

\* ------------------------------------------------------------------ bounds
\* Largest configured capacity m_maxLen explored.
MaxCap == 2
\* Largest configured timeout m_maintainBufferTimeout explored (clock units).
MaxTimeout == 1
\* The simulation clock runs from 0 to MaxTime.
MaxTime == 2

\* ------------------------------------------------------------------ inputs
\* Values of the address fields (nextHop, ourAdd, src, dst).
Addrs == {1, 2}
\* Values of the ackId field.
AckIds == {1, 2}
\* Values of the segsLeft field.
SegsLefts == {1, 2}

\* A caller's entry object that no operation has filled in.
NoEntry ==
    [nextHop |-> 0, ourAdd |-> 0, src |-> 0, dst |-> 0,
     ackId |-> 0, segsLeft |-> 0, expire |-> 0]

\* Every entry a caller can build, before the buffer stamps its deadline.
AllEntries ==
    [nextHop : Addrs, ourAdd : Addrs, src : Addrs, dst : Addrs,
     ackId : AckIds, segsLeft : SegsLefts, expire : {0}]

\* The six key fields.
KeyFields == {"nextHop", "ourAdd", "src", "dst", "ackId", "segsLeft"}

\* The key fields on which two entries differ.
Differing(a, b) == {f \in KeyFields : a[f] # b[f]}

\* The entry whose key fields are all 1.
BaseEntry ==
    [nextHop |-> 1, ourAdd |-> 1, src |-> 1, dst |-> 1,
     ackId |-> 1, segsLeft |-> 1, expire |-> 0]

\* The entry that differs from e in the field f alone.
Variant(e, f) == [e EXCEPT ![f] = 3 - e[f]]

\* The entries the signal sources pass to the matching operations: the base
\* entry and its six single-field variants.
Signals == {BaseEntry} \cup {Variant(BaseEntry, f) : f \in KeyFields}

\* The entry objects a caller passes to Dequeue to be filled in: a fresh one
\* and one that holds an earlier result.
OutEntries == {NoEntry, BaseEntry}

\* The entries the forwarding logic enqueues: the base entry, one for another
\* next hop, one further along the same route and one with the next ackId.
Forwarded ==
    {BaseEntry, Variant(BaseEntry, "nextHop"), Variant(BaseEntry, "segsLeft"),
     Variant(BaseEntry, "ackId")}

\* ------------------------------------------------------------------- state
VARIABLES
    m_maintainBuffer,         \* the vector of buffered entries, oldest first
    m_maxLen,                 \* the configured capacity
    m_maintainBufferTimeout,  \* the configured lifetime of an entry
    now,                      \* Simulator::Now()
    op,                       \* the operation of the latest call
    arg,                      \* the entry passed to the latest call, as passed
    hop,                      \* the nextHop passed to the latest call (0: none)
    entry,                    \* the caller's entry object after the latest call
    ret,                      \* the boolean the latest call returned
    size,                     \* the count the latest GetSize returned
    pre,                      \* m_maintainBuffer as it was before the latest call
    filled,                   \* the entries a fill run has inserted, as stamped
    undefined,                \* a call has run into undefined behaviour
    step                      \* the calls a scenario run has made so far

vars ==
    <<m_maintainBuffer, m_maxLen, m_maintainBufferTimeout, now,
      op, arg, hop, entry, ret, size, pre, filled, undefined, step>>

config == <<m_maxLen, m_maintainBufferTimeout>>

\* --------------------------------------------------------------- the entry
\* DsrMaintainBuffEntry::SetExpireTime: the deadline is now + exp.
SetExpireTime(e, exp) == [e EXCEPT !.expire = exp + now]

\* DsrMaintainBuffEntry::GetExpireTime: the time left until the deadline.
GetExpireTime(e) == e.expire - now

\* Mutant of IsExpired: IsNegative for IsStrictlyNegative.
IsExpiredNonStrict(e) == GetExpireTime(e) <= 0

\* Mutant of IsExpired: IsStrictlyPositive for IsStrictlyNegative.
IsExpiredInverted(e) == GetExpireTime(e) > 0

\* IsExpired::operator(): the time left is strictly negative.
IsExpired(e) == GetExpireTime(e) < 0

\* ------------------------------------------------------------- the vector
\* std::vector::erase(i) at the 1-based position i.
Erase(b, i) == SubSeq(b, 1, i - 1) \o SubSeq(b, i + 1, Len(b))

\* Mutant of FirstIndex: the loop keeps the last element that passes.
LastIndex(hit) ==
    IF \E i \in 1..Len(hit) : hit[i]
    THEN CHOOSE i \in 1..Len(hit) : hit[i] /\ \A j \in (i + 1)..Len(hit) : ~hit[j]
    ELSE 0

\* The position at which a for-loop from begin() first meets an element
\* passing its test (0: the loop reaches end()); hit[k] tells whether the
\* element at position k passes.
FirstIndex(hit) ==
    IF \E i \in 1..Len(hit) : hit[i]
    THEN CHOOSE i \in 1..Len(hit) : hit[i] /\ \A j \in 1..(i - 1) : ~hit[j]
    ELSE 0

\* Mutant of Purged: only an expired front element is erased.
PurgedFrontOnly(b) == IF b # <<>> /\ IsExpired(b[1]) THEN Tail(b) ELSE b

\* DsrMaintainBuffer::Purge as a function of the vector:
\* erase(remove_if(begin, end, IsExpired), end) keeps the others, in order.
Purged(b) == SelectSeq(b, LAMBDA e : ~IsExpired(e))

\* ---------------------------------------------------- the field comparisons
\* Mutant of SameEntry: the ackId of the buffered entry is compared with the
\* segsLeft of the new one.
SameEntryMixedUp(i, e) ==
    /\ i.nextHop = e.nextHop /\ i.ourAdd = e.ourAdd
    /\ i.src = e.src /\ i.dst = e.dst
    /\ i.ackId = e.segsLeft /\ i.segsLeft = e.segsLeft

\* The duplicate test of Enqueue.
SameEntry(i, e) ==
    /\ i.nextHop = e.nextHop /\ i.ourAdd = e.ourAdd
    /\ i.src = e.src /\ i.dst = e.dst
    /\ i.ackId = e.ackId /\ i.segsLeft = e.segsLeft

\* Mutant of AllEqualTest: the segsLeft comparison is missing.
AllEqualTestNoSegsLeft(i, e) ==
    /\ i.ourAdd = e.ourAdd /\ i.nextHop = e.nextHop
    /\ i.src = e.src /\ i.dst = e.dst
    /\ i.ackId = e.ackId

\* The test of AllEqual.
AllEqualTest(i, e) ==
    /\ i.ourAdd = e.ourAdd /\ i.nextHop = e.nextHop
    /\ i.src = e.src /\ i.dst = e.dst
    /\ i.ackId = e.ackId /\ i.segsLeft = e.segsLeft

\* Mutant of NetworkEqualTest: segsLeft is compared as well.
NetworkEqualTestWithSegsLeft(i, e) ==
    /\ i.ourAdd = e.ourAdd /\ i.nextHop = e.nextHop
    /\ i.src = e.src /\ i.dst = e.dst
    /\ i.ackId = e.ackId /\ i.segsLeft = e.segsLeft

\* The test of NetworkEqual.
NetworkEqualTest(i, e) ==
    /\ i.ourAdd = e.ourAdd /\ i.nextHop = e.nextHop
    /\ i.src = e.src /\ i.dst = e.dst
    /\ i.ackId = e.ackId

\* Mutant of PromiscEqualTest: nextHop is compared as well.
PromiscEqualTestWithNextHop(i, e) ==
    /\ i.src = e.src /\ i.dst = e.dst
    /\ i.segsLeft = e.segsLeft /\ i.ackId = e.ackId
    /\ i.nextHop = e.nextHop

\* The test of PromiscEqual.
PromiscEqualTest(i, e) ==
    /\ i.src = e.src /\ i.dst = e.dst
    /\ i.segsLeft = e.segsLeft /\ i.ackId = e.ackId

\* Mutant of LinkEqualTest: ackId is compared as well.
LinkEqualTestWithAckId(i, e) ==
    /\ i.src = e.src /\ i.dst = e.dst
    /\ i.ourAdd = e.ourAdd /\ i.nextHop = e.nextHop
    /\ i.ackId = e.ackId

\* The test of LinkEqual.
LinkEqualTest(i, e) ==
    /\ i.src = e.src /\ i.dst = e.dst
    /\ i.ourAdd = e.ourAdd /\ i.nextHop = e.nextHop

\* Mutant of NextHopTest: the wrong getter, GetOurAdd for GetNextHop.
NextHopTestOurAdd(i, nextHop) == i.ourAdd = nextHop

\* The test of Dequeue, Find and DropPacketWithNextHop.
NextHopTest(i, nextHop) == i.nextHop = nextHop

\* -------------------------------------------------------------- operations
\* The buffer as constructed, but for its capacity.
Constructed ==
    /\ m_maintainBuffer = <<>>
    /\ m_maintainBufferTimeout \in 0..MaxTimeout
    /\ now = 0
    /\ op = "init"
    /\ arg = NoEntry
    /\ hop = 0
    /\ entry = NoEntry
    /\ ret = FALSE
    /\ size = 0
    /\ pre = <<>>
    /\ filled = <<>>
    /\ undefined = FALSE
    /\ step = 0

\* The buffer as the routing agent configures it: a capacity of at least 1.
Init == Constructed /\ m_maxLen \in 1..MaxCap

\* The buffer with any capacity the type allows, 0 included.
InitAnyCap == Constructed /\ m_maxLen \in 0..MaxCap

\* What every call records of itself; no call returns from undefined
\* behaviour.
Called(name, e, nextHop) ==
    /\ ~undefined
    /\ op' = name
    /\ arg' = e
    /\ hop' = nextHop
    /\ pre' = m_maintainBuffer
    /\ UNCHANGED <<now, config>>

\* What a call hands back: the caller's entry object and the boolean result
\* (NoEntry and FALSE where the operation has none).
Returned(e, r) ==
    /\ entry' = e
    /\ ret' = r

\* Only GetSize returns a count.
NoCount == size' = 0

\* Mutant of GetSize: the count is taken without the purge.
GetSizeNoPurge ==
    /\ Called("GetSize", NoEntry, 0)
    /\ m_maintainBuffer' = m_maintainBuffer
    /\ size' = Len(m_maintainBuffer')
    /\ Returned(NoEntry, FALSE)

\* uint32_t GetSize()
GetSize ==
    /\ Called("GetSize", NoEntry, 0)
    /\ m_maintainBuffer' = Purged(m_maintainBuffer)
    /\ size' = Len(m_maintainBuffer')
    /\ Returned(NoEntry, FALSE)

\* Mutant of HasSameEntry: the scan stops after the front element.
HasSameEntryFrontOnly(b, e) == b # <<>> /\ SameEntry(b[1], e)

\* Enqueue's scan: some buffered entry passes the duplicate test.
HasSameEntry(b, e) == \E k \in 1..Len(b) : SameEntry(b[k], e)

\* Mutant of IsFull: the capacity test off by one (> for >=).
IsFullOffByOne(b) == Len(b) > m_maxLen

\* Enqueue's capacity test.
IsFull(b) == Len(b) >= m_maxLen

\* Mutant of DropMostAged: clear() for erase(begin()).
DropEverything(b) == SubSeq(b, 1, 0)

\* Mutant of DropMostAged: the newest entry is erased instead of the oldest.
DropNewest(b) == Erase(b, Len(b))

\* Enqueue's eviction: erase(begin()), "drop the most aged packet".
DropMostAged(b) == Erase(b, 1)

\* Mutant of Enqueue: a full buffer rejects the new entry instead of evicting.
EnqueueRejectingWhenFull(e) ==
    LET b == Purged(m_maintainBuffer)
        stamped == SetExpireTime(e, m_maintainBufferTimeout)
    IN  /\ Called("Enqueue", e, 0)
        /\ IF HasSameEntry(b, e) \/ IsFull(b)
           THEN /\ m_maintainBuffer' = b
                /\ Returned(e, FALSE)
           ELSE /\ m_maintainBuffer' = Append(b, stamped)
                /\ Returned(stamped, TRUE)
        /\ NoCount
        /\ undefined' = FALSE

\* Mutant of Enqueue: a duplicate refreshes the deadline of the buffered entry.
EnqueueRefreshingDuplicate(e) ==
    LET b == Purged(m_maintainBuffer)
        stamped == SetExpireTime(e, m_maintainBufferTimeout)
        room == IF IsFull(b) THEN DropMostAged(b) ELSE b
    IN  /\ Called("Enqueue", e, 0)
        /\ IF HasSameEntry(b, e)
           THEN /\ m_maintainBuffer' =
                     [k \in 1..Len(b) |->
                        IF SameEntry(b[k], e)
                        THEN SetExpireTime(b[k], m_maintainBufferTimeout)
                        ELSE b[k]]
                /\ Returned(e, FALSE)
           ELSE /\ m_maintainBuffer' = Append(room, stamped)
                /\ Returned(stamped, TRUE)
        /\ NoCount
        /\ undefined' = FALSE

\* Mutant of Enqueue: the duplicate scan looks at the vector as it was
\* before the purge.
EnqueueScanBeforePurge(e) ==
    LET b == Purged(m_maintainBuffer)
        stamped == SetExpireTime(e, m_maintainBufferTimeout)
        room == IF IsFull(b) /\ b # <<>> THEN DropMostAged(b) ELSE b
    IN  /\ Called("Enqueue", e, 0)
        /\ IF HasSameEntry(m_maintainBuffer, e)
           THEN /\ m_maintainBuffer' = b
                /\ Returned(e, FALSE)
           ELSE /\ m_maintainBuffer' = Append(room, stamped)
                /\ Returned(stamped, TRUE)
        /\ NoCount
        /\ undefined' = FALSE

\* Mutant of Enqueue: the new entry is inserted at the front.
EnqueueAtFront(e) ==
    LET b == Purged(m_maintainBuffer)
        stamped == SetExpireTime(e, m_maintainBufferTimeout)
        room == IF IsFull(b) /\ b # <<>> THEN DropMostAged(b) ELSE b
    IN  /\ Called("Enqueue", e, 0)
        /\ IF HasSameEntry(b, e)
           THEN /\ m_maintainBuffer' = b
                /\ Returned(e, FALSE)
           ELSE /\ m_maintainBuffer' = <<stamped>> \o room
                /\ Returned(stamped, TRUE)
        /\ NoCount
        /\ undefined' = FALSE

\* Mutant of Enqueue: the capacity test looks at the vector as it was before
\* the purge.
EnqueueFullBeforePurge(e) ==
    LET b == Purged(m_maintainBuffer)
        stamped == SetExpireTime(e, m_maintainBufferTimeout)
        room == IF IsFull(m_maintainBuffer) /\ b # <<>> THEN DropMostAged(b) ELSE b
    IN  /\ Called("Enqueue", e, 0)
        /\ IF HasSameEntry(b, e)
           THEN /\ m_maintainBuffer' = b
                /\ Returned(e, FALSE)
           ELSE /\ m_maintainBuffer' = Append(room, stamped)
                /\ Returned(stamped, TRUE)
        /\ NoCount
        /\ undefined' = FALSE

\* bool Enqueue(DsrMaintainBuffEntry& entry)
\* erase(begin()) on an empty vector is undefined: the vector may come out
\* empty or holding the new entry, with either return value.
Enqueue(e) ==
    LET b == Purged(m_maintainBuffer)
        stamped == SetExpireTime(e, m_maintainBufferTimeout)
        room == IF IsFull(b) THEN DropMostAged(b) ELSE b
    IN  /\ Called("Enqueue", e, 0)
        /\ IF HasSameEntry(b, e)
           THEN /\ m_maintainBuffer' = b
                /\ Returned(e, FALSE)
                /\ undefined' = FALSE
           ELSE IF IsFull(b) /\ b = <<>>
           THEN /\ m_maintainBuffer' \in {<<>>, <<stamped>>}
                /\ entry' = stamped
                /\ ret' \in BOOLEAN
                /\ undefined' = TRUE
           ELSE /\ m_maintainBuffer' = Append(room, stamped)
                /\ Returned(stamped, TRUE)
                /\ undefined' = FALSE
        /\ NoCount

\* Mutant of DropPacketWithNextHop: only the first entry with the next hop
\* is erased.
DropPacketWithNextHopFirstOnly(nextHop) ==
    LET b == Purged(m_maintainBuffer)
        k == FirstIndex([i \in 1..Len(b) |-> NextHopTest(b[i], nextHop)])
    IN  /\ Called("DropPacketWithNextHop", NoEntry, nextHop)
        /\ m_maintainBuffer' = IF k # 0 THEN Erase(b, k) ELSE b
        /\ Returned(NoEntry, FALSE)
        /\ NoCount

\* void DropPacketWithNextHop(Ipv4Address nextHop)
DropPacketWithNextHop(nextHop) ==
    /\ Called("DropPacketWithNextHop", NoEntry, nextHop)
    /\ m_maintainBuffer' =
          SelectSeq(Purged(m_maintainBuffer), LAMBDA en : ~NextHopTest(en, nextHop))
    /\ Returned(NoEntry, FALSE)
    /\ NoCount

\* Mutant of Dequeue: every entry with the next hop is erased, the first one
\* handed back.
DequeueAllForNextHop(nextHop, e) ==
    LET b == Purged(m_maintainBuffer)
        k == FirstIndex([i \in 1..Len(b) |-> NextHopTest(b[i], nextHop)])
    IN  /\ Called("Dequeue", e, nextHop)
        /\ IF k # 0
           THEN /\ m_maintainBuffer' =
                     SelectSeq(b, LAMBDA en : ~NextHopTest(en, nextHop))
                /\ Returned(b[k], TRUE)
           ELSE /\ m_maintainBuffer' = b
                /\ Returned(e, FALSE)
        /\ NoCount

\* Mutant of Dequeue: the scan runs without the purge.
DequeueNoPurge(nextHop, e) ==
    LET b == m_maintainBuffer
        k == FirstIndex([i \in 1..Len(b) |-> NextHopTest(b[i], nextHop)])
    IN  /\ Called("Dequeue", e, nextHop)
        /\ IF k # 0
           THEN /\ m_maintainBuffer' = Erase(b, k)
                /\ Returned(b[k], TRUE)
           ELSE /\ m_maintainBuffer' = b
                /\ Returned(e, FALSE)
        /\ NoCount

\* Mutant of Dequeue: the found entry is handed back without its deadline.
DequeueWithoutExpire(nextHop, e) ==
    LET b == Purged(m_maintainBuffer)
        k == FirstIndex([i \in 1..Len(b) |-> NextHopTest(b[i], nextHop)])
    IN  /\ Called("Dequeue", e, nextHop)
        /\ IF k # 0
           THEN /\ m_maintainBuffer' = Erase(b, k)
                /\ Returned([b[k] EXCEPT !.expire = e.expire], TRUE)
           ELSE /\ m_maintainBuffer' = b
                /\ Returned(e, FALSE)
        /\ NoCount

\* bool Dequeue(Ipv4Address nextHop, DsrMaintainBuffEntry& entry)
Dequeue(nextHop, e) ==
    LET b == Purged(m_maintainBuffer)
        k == FirstIndex([i \in 1..Len(b) |-> NextHopTest(b[i], nextHop)])
    IN  /\ Called("Dequeue", e, nextHop)
        /\ IF k # 0
           THEN /\ m_maintainBuffer' = Erase(b, k)
                /\ Returned(b[k], TRUE)
           ELSE /\ m_maintainBuffer' = b
                /\ Returned(e, FALSE)
        /\ NoCount

\* Mutant of Find: the buffer is purged before the scan.
FindPurging(nextHop) ==
    LET b == Purged(m_maintainBuffer)
    IN  /\ Called("Find", NoEntry, nextHop)
        /\ Returned(NoEntry,
                    FirstIndex([i \in 1..Len(b) |-> NextHopTest(b[i], nextHop)]) # 0)
        /\ NoCount
        /\ m_maintainBuffer' = b

\* bool Find(Ipv4Address nextHop)
Find(nextHop) ==
    /\ Called("Find", NoEntry, nextHop)
    /\ Returned(NoEntry,
                FirstIndex([i \in 1..Len(m_maintainBuffer) |->
                                NextHopTest(m_maintainBuffer[i], nextHop)]) # 0)
    /\ NoCount
    /\ UNCHANGED m_maintainBuffer

\* Mutant of EraseFirst: true is returned whether or not an element passed.
EraseFirstAlwaysTrue(name, e, hit) ==
    LET k == FirstIndex(hit)
    IN  /\ Called(name, e, 0)
        /\ m_maintainBuffer' =
              IF k # 0 THEN Erase(m_maintainBuffer, k) ELSE m_maintainBuffer
        /\ Returned(e, TRUE)
        /\ NoCount

\* The body the four matching operations share: erase the first element
\* that passes the operation's test against the caller's entry; hit[k]
\* tells whether the element at position k passes.
EraseFirst(name, e, hit) ==
    LET k == FirstIndex(hit)
    IN  /\ Called(name, e, 0)
        /\ IF k # 0
           THEN /\ m_maintainBuffer' = Erase(m_maintainBuffer, k)
                /\ Returned(e, TRUE)
           ELSE /\ m_maintainBuffer' = m_maintainBuffer
                /\ Returned(e, FALSE)
        /\ NoCount

\* Mutant of AllEqual: the element that passes is reported but not erased.
AllEqualNoErase(e) ==
    /\ Called("AllEqual", e, 0)
    /\ m_maintainBuffer' = m_maintainBuffer
    /\ Returned(e, \E i \in 1..Len(m_maintainBuffer) :
                       AllEqualTest(m_maintainBuffer[i], e))
    /\ NoCount

\* bool AllEqual(DsrMaintainBuffEntry& entry)
AllEqual(e) ==
    EraseFirst("AllEqual", e,
               [i \in 1..Len(m_maintainBuffer) |-> AllEqualTest(m_maintainBuffer[i], e)])

\* bool NetworkEqual(DsrMaintainBuffEntry& entry)
NetworkEqual(e) ==
    EraseFirst("NetworkEqual", e,
               [i \in 1..Len(m_maintainBuffer) |-> NetworkEqualTest(m_maintainBuffer[i], e)])

\* Mutant of PromiscEqual: the buffer is purged before the scan.
PromiscEqualPurging(e) ==
    LET b == Purged(m_maintainBuffer)
        k == FirstIndex([i \in 1..Len(b) |-> PromiscEqualTest(b[i], e)])
    IN  /\ Called("PromiscEqual", e, 0)
        /\ IF k # 0
           THEN /\ m_maintainBuffer' = Erase(b, k)
                /\ Returned(e, TRUE)
           ELSE /\ m_maintainBuffer' = b
                /\ Returned(e, FALSE)
        /\ NoCount

\* bool PromiscEqual(DsrMaintainBuffEntry& entry)
PromiscEqual(e) ==
    EraseFirst("PromiscEqual", e,
               [i \in 1..Len(m_maintainBuffer) |-> PromiscEqualTest(m_maintainBuffer[i], e)])

\* bool LinkEqual(DsrMaintainBuffEntry& entry)
LinkEqual(e) ==
    EraseFirst("LinkEqual", e,
               [i \in 1..Len(m_maintainBuffer) |-> LinkEqualTest(m_maintainBuffer[i], e)])

\* void Purge()
Purge ==
    /\ Called("Purge", NoEntry, 0)
    /\ m_maintainBuffer' = Purged(m_maintainBuffer)
    /\ Returned(NoEntry, FALSE)
    /\ NoCount

\* The event scheduler advances the simulation clock.
Tick ==
    /\ ~undefined
    /\ now < MaxTime
    /\ now' = now + 1
    /\ op' = "Tick"
    /\ arg' = NoEntry
    /\ hop' = 0
    /\ pre' = m_maintainBuffer
    /\ Returned(NoEntry, FALSE)
    /\ NoCount
    /\ UNCHANGED <<m_maintainBuffer, config>>

\* The calls the routing agent and the signal sources make, and the clock.
Next ==
    \/ GetSize /\ UNCHANGED <<filled, undefined, step>>
    \/ \E e \in Forwarded : Enqueue(e) /\ UNCHANGED <<filled, step>>
    \/ \E n \in Addrs : DropPacketWithNextHop(n) /\ UNCHANGED <<filled, undefined, step>>
    \/ \E n \in Addrs : \E e \in OutEntries : Dequeue(n, e) /\ UNCHANGED <<filled, undefined, step>>
    \/ \E n \in Addrs : Find(n) /\ UNCHANGED <<filled, undefined, step>>
    \/ \E e \in Signals : AllEqual(e) /\ UNCHANGED <<filled, undefined, step>>
    \/ \E e \in Signals : NetworkEqual(e) /\ UNCHANGED <<filled, undefined, step>>
    \/ \E e \in Signals : PromiscEqual(e) /\ UNCHANGED <<filled, undefined, step>>
    \/ \E e \in Signals : LinkEqual(e) /\ UNCHANGED <<filled, undefined, step>>
    \/ Purge /\ UNCHANGED <<filled, undefined, step>>
    \/ Tick /\ UNCHANGED <<filled, undefined, step>>

Spec == Init /\ [][Next]_vars

\* The same calls on a buffer of any capacity.
SpecAnyCap == InitAnyCap /\ [][Next]_vars

\* ------------------------------------------------------------- the fill run
\* A fill run: starting from the empty buffer the forwarding logic enqueues
\* m_maxLen + 1 entries with pairwise distinct keys while the clock runs.
FillEnqueue(e) ==
    /\ Len(filled) <= m_maxLen
    /\ \A k \in 1..Len(filled) : Differing(filled[k], e) # {}
    /\ Enqueue(e)
    /\ filled' = Append(filled, entry')
    /\ UNCHANGED step

FillTick == Tick /\ UNCHANGED <<filled, undefined, step>>

NextFill ==
    \/ \E e \in Forwarded : FillEnqueue(e)
    \/ FillTick

SpecFill == Init /\ [][NextFill]_vars

\* --------------------------------------------------------- the scenario run
\* The next hops N1..N5 of the scenario.
Hops == {1, 2, 3, 4, 5}

\* The capacities of the scenario: room for its five entries.
ScenarioCaps == {5, 6}

\* The entries the scenario may enqueue for the next hop n: E_n has the
\* ackId n, and any segsLeft.
ScenarioEntries(n) ==
    {[BaseEntry EXCEPT !.nextHop = n, !.ackId = n, !.segsLeft = sl] :
        sl \in SegsLefts}

InitScenario == Constructed /\ m_maxLen \in ScenarioCaps

\* Enqueue E1..E5 in turn.
ScenarioEnqueue(e) ==
    /\ step < Cardinality(Hops)
    /\ e \in ScenarioEntries(step + 1)
    /\ Enqueue(e)
    /\ filled' = Append(filled, entry')
    /\ step' = step + 1

\* Then Dequeue(N3), GetSize, Find(N3), DropPacketWithNextHop(N1), GetSize.
ScenarioDequeue ==
    /\ step = 5
    /\ Dequeue(3, NoEntry)
    /\ step' = 6
    /\ UNCHANGED <<filled, undefined>>

ScenarioGetSize ==
    /\ step \in {6, 9}
    /\ GetSize
    /\ step' = step + 1
    /\ UNCHANGED <<filled, undefined>>

ScenarioFind ==
    /\ step = 7
    /\ Find(3)
    /\ step' = 8
    /\ UNCHANGED <<filled, undefined>>

ScenarioDrop ==
    /\ step = 8
    /\ DropPacketWithNextHop(1)
    /\ step' = 9
    /\ UNCHANGED <<filled, undefined>>

\* No expiry: the clock stays within the timeout of the first entry.
ScenarioTick ==
    /\ now < m_maintainBufferTimeout
    /\ Tick
    /\ UNCHANGED <<filled, undefined, step>>

NextScenario ==
    \/ \E n \in Hops : \E e \in ScenarioEntries(n) : ScenarioEnqueue(e)
    \/ ScenarioDequeue
    \/ ScenarioGetSize
    \/ ScenarioFind
    \/ ScenarioDrop
    \/ ScenarioTick

SpecScenario == InitScenario /\ [][NextScenario]_vars

\* ------------------------------------------------------- the reclaiming run
\* The forwarding logic enqueues entries and loses interest in them; the
\* purging operations keep being called and the clock keeps advancing. An
\* entry is enqueued only while its deadline falls inside the explored range
\* of the clock.
LiveEnqueue(e) ==
    /\ now + m_maintainBufferTimeout < MaxTime
    /\ Enqueue(e)
    /\ UNCHANGED <<filled, step>>

LiveGetSize == GetSize /\ UNCHANGED <<filled, undefined, step>>

LiveFind(n) == Find(n) /\ UNCHANGED <<filled, undefined, step>>

LiveTick == Tick /\ UNCHANGED <<filled, undefined, step>>

\* A call of an operation that purges and takes no entry by choice.
PurgingCall == LiveGetSize \/ \E e \in Forwarded : LiveEnqueue(e)

NextLive ==
    \/ \E e \in Forwarded : LiveEnqueue(e)
    \/ LiveGetSize
    \/ \E n \in Addrs : LiveFind(n)
    \/ LiveTick

SpecLive ==
    /\ Init
    /\ [][NextLive]_vars
    /\ WF_vars(LiveTick)
    /\ WF_vars(PurgingCall)

\* ------------------------------------------------------------ the claims
\* The buffer, for short.
buf == m_maintainBuffer

\* The entries of b whose deadline has not passed, in order.
Unexpired(b) == SelectSeq(b, LAMBDA x : x.expire >= now)

\* a and b agree on every field of fs.
AgreeOn(a, b, fs) == \A f \in fs : a[f] = b[f]

\* The entries of a sequence, as a set.
Range(b) == {b[k] : k \in 1..Len(b)}

\* The operations that call Purge first.
PurgingOps == {"GetSize", "Enqueue", "Dequeue", "DropPacketWithNextHop", "Purge"}

\* C1: after any sequence of calls and clock advances the buffer never
\* holds more than m_maxLen entries.
C1_NeverExceedsMaxLen == Len(buf) <= m_maxLen

\* C1 witness: an Enqueue met a buffer holding m_maxLen unexpired entries,
\* inserted its entry and left the buffer at m_maxLen entries.
C1_Witness ==
    /\ op = "Enqueue" /\ ret
    /\ Len(Unexpired(pre)) = m_maxLen
    /\ Len(buf) = m_maxLen

\* C2: no two buffered entries are equal on all six key fields.
C2_NoTwoEntriesEqual ==
    \A j, k \in 1..Len(buf) : j # k => ~AgreeOn(buf[j], buf[k], KeyFields)

\* C2 witness: an Enqueue found an unexpired entry with its key among two
\* buffered entries and returned false.
C2_Witness ==
    /\ op = "Enqueue" /\ ~ret
    /\ Len(buf) = 2
    /\ \E k \in 1..Len(buf) : AgreeOn(buf[k], arg, KeyFields)

\* C3 as stated: an Enqueue whose key equals that of an unexpired buffered
\* entry returns false and leaves the vector exactly as it was before the call.
C3_DuplicateLeavesBufferUntouched ==
    (/\ op = "Enqueue"
     /\ \E k \in 1..Len(pre) :
            pre[k].expire >= now /\ AgreeOn(pre[k], arg, KeyFields))
    => (~ret /\ buf = pre /\ Len(buf) = Len(pre))

\* C3 amended: such an Enqueue returns false, leaves the caller's entry
\* unstamped, and leaves in the vector exactly the entries that had not
\* expired, unchanged and in order; only expired entries are gone.
C3_DuplicateOnlyPurges ==
    (/\ op = "Enqueue"
     /\ \E k \in 1..Len(pre) :
            pre[k].expire >= now /\ AgreeOn(pre[k], arg, KeyFields))
    => (~ret /\ buf = Unexpired(pre) /\ entry = arg)

\* C3 witness: a rejected duplicate Enqueue that also purged an expired entry.
C3_Witness ==
    /\ op = "Enqueue" /\ ~ret
    /\ \E k \in 1..Len(pre) :
            pre[k].expire >= now /\ AgreeOn(pre[k], arg, KeyFields)
    /\ Len(buf) < Len(pre)

\* C4 as stated: once m_maxLen + 1 entries with distinct keys were enqueued
\* into the empty buffer, exactly m_maxLen entries are present and the one
\* missing is the one inserted first.
C4_FillLeavesMaxLen ==
    (op = "Enqueue" /\ Len(filled) = m_maxLen + 1)
    => (Len(buf) = m_maxLen /\ buf = Tail(filled))

\* C4 amended: the same, provided none of the m_maxLen entries inserted last
\* has expired by the time of the last Enqueue.
C4_FillLeavesMaxLenUnexpired ==
    (/\ op = "Enqueue" /\ Len(filled) = m_maxLen + 1
     /\ \A k \in 2..Len(filled) : filled[k].expire >= now)
    => (Len(buf) = m_maxLen /\ buf = Tail(filled))

\* C4 witness: the fill run is complete and the entry inserted first had
\* expired before the last Enqueue.
C4_Witness ==
    /\ op = "Enqueue" /\ Len(filled) = m_maxLen + 1
    /\ filled[1].expire < now
    /\ \A k \in 2..Len(filled) : filled[k].expire >= now
    /\ buf = Tail(filled)

\* C5: an Enqueue of an entry with no six-field duplicate in the buffer
\* returns true, also at capacity, and its entry, stamped now + timeout, is
\* the last element afterwards.
C5_NonDuplicateAlwaysAppended ==
    (/\ op = "Enqueue"
     /\ \A k \in 1..Len(pre) : ~AgreeOn(pre[k], arg, KeyFields))
    => /\ ret
       /\ Len(buf) >= 1
       /\ AgreeOn(buf[Len(buf)], arg, KeyFields)
       /\ buf[Len(buf)].expire = now + m_maintainBufferTimeout

\* C5 witness: an Enqueue without duplicate met m_maxLen unexpired entries
\* and returned true.
C5_Witness ==
    /\ op = "Enqueue" /\ ret
    /\ \A k \in 1..Len(pre) : ~AgreeOn(pre[k], arg, KeyFields)
    /\ Len(pre) = m_maxLen /\ Unexpired(pre) = pre
    /\ AgreeOn(buf[Len(buf)], arg, KeyFields)

\* The positions of the entries of b with the given nextHop.
PositionsFor(b, nextHop) == {k \in 1..Len(b) : b[k].nextHop = nextHop}

\* The least element of a non-empty set of numbers.
Least(S) == CHOOSE k \in S : \A j \in S : k <= j

\* b without its element at position k.
Without(b, k) == [j \in 1..(Len(b) - 1) |-> IF j < k THEN b[j] ELSE b[j + 1]]

\* C6, one call: among the unexpired entries (the expired ones are purged
\* first) Dequeue hands back the earliest one with the nextHop and removes
\* only it; it returns false, removing none, when there is none.
C6_DequeueOnce ==
    op = "Dequeue" =>
        LET live == Unexpired(pre)
            at == PositionsFor(live, hop)
        IN  IF at # {}
            THEN /\ ret
                 /\ entry = live[Least(at)]
                 /\ buf = Without(live, Least(at))
            ELSE ~ret /\ buf = live

\* C6, two calls: a Dequeue that immediately follows a successful Dequeue
\* for the same nextHop succeeds if and only if another unexpired entry
\* with that nextHop is still queued.
C6_DequeueAgain ==
    (op = "Dequeue" /\ ret /\ op' = "Dequeue" /\ hop' = hop)
    => (ret' <=> \E k \in 1..Len(buf) : buf[k].nextHop = hop /\ buf[k].expire >= now)

\* C6: Dequeue returns the earliest-inserted live entry with the nextHop and
\* removes only it; an immediately following Dequeue for the same nextHop
\* reports not-found unless another live entry with that nextHop was queued.
C6_DequeueEarliestLive == []C6_DequeueOnce /\ [][C6_DequeueAgain]_vars

\* C6 witness: Dequeue returned the earlier of two unexpired entries with
\* the nextHop and left the later one queued.
C6_Witness ==
    /\ op = "Dequeue" /\ ret
    /\ Len(Unexpired(pre)) = 2
    /\ \A k \in 1..2 : Unexpired(pre)[k].nextHop = hop
    /\ entry = Unexpired(pre)[1]
    /\ buf = <<Unexpired(pre)[2]>>

\* C7 as stated, after the purging call: every entry whose deadline had
\* passed is gone, and no entry with its nextHop is left for Find to find.
C7_ExpiredGoneAndNotFound ==
    op \in PurgingOps =>
        \A k \in 1..Len(pre) :
            pre[k].expire < now =>
                /\ pre[k] \notin Range(buf)
                /\ ~\E j \in 1..Len(buf) : buf[j].nextHop = pre[k].nextHop

\* C7 as stated, at the Find that follows the purging call: Find on the
\* nextHop of an entry whose deadline had passed returns false.
C7_FindAfterPurgeFalse ==
    (op \in PurgingOps /\ op' = "Find")
    => \A k \in 1..Len(pre) :
            (pre[k].expire < now /\ pre[k].nextHop = hop') => ~ret'

\* C7 as stated: once the clock is past an entry's deadline a purging call
\* removes the entry, and Find on its nextHop afterwards returns false.
C7_PurgedThenFindFalse ==
    []C7_ExpiredGoneAndNotFound /\ [][C7_FindAfterPurgeFalse]_vars

\* C7 amended, after the purging call: every entry whose deadline had passed
\* is gone and every entry left has a deadline that has not passed.
C7_ExpiredGone ==
    op \in PurgingOps =>
        /\ \A k \in 1..Len(pre) : pre[k].expire < now => pre[k] \notin Range(buf)
        /\ \A j \in 1..Len(buf) : buf[j].expire >= now

\* C7 amended, at the Find that follows the purging call: Find on the
\* nextHop of an entry whose deadline had passed returns true only when
\* another entry with that nextHop, not expired, is buffered.
C7_FindAfterPurgeOnlyLive ==
    (op \in PurgingOps /\ op' = "Find")
    => \A k \in 1..Len(pre) :
            (pre[k].expire < now /\ pre[k].nextHop = hop') =>
                (ret' <=> \E j \in 1..Len(buf) :
                            /\ buf[j].nextHop = hop'
                            /\ buf[j].expire >= now
                            /\ buf[j] # pre[k])

\* C7 amended: once the clock is past an entry's deadline a purging call
\* removes the entry, and Find on its nextHop afterwards returns false
\* unless another entry with that nextHop, not expired, is buffered.
C7_PurgedThenFindOnlyLive ==
    []C7_ExpiredGone /\ [][C7_FindAfterPurgeOnlyLive]_vars

\* C7 witness: GetSize removed an expired entry and left an unexpired one
\* with the same nextHop.
C7_Witness ==
    /\ op = "GetSize"
    /\ \E k \in 1..Len(pre) :
            /\ pre[k].expire < now
            /\ pre[k] \notin Range(buf)
            /\ \E j \in 1..Len(buf) : buf[j].nextHop = pre[k].nextHop

\* C8: AllEqual returns true if and only if some buffered entry equals the
\* signal on all six key fields.
C8_AllEqualIffSixFields ==
    op = "AllEqual" =>
        (ret <=> \E k \in 1..Len(pre) :
                    AgreeOn(pre[k], arg,
                            {"ourAdd", "nextHop", "src", "dst", "ackId", "segsLeft"}))

\* C8 witness: AllEqual returned false on a buffer whose only entry differs
\* from the signal in a single field.
C8_Witness ==
    /\ op = "AllEqual" /\ ~ret
    /\ Len(pre) = 1
    /\ Cardinality(Differing(pre[1], arg)) = 1

\* C9: NetworkEqual returns true if and only if some buffered entry equals
\* the signal on ourAdd, nextHop, src, dst and ackId.
C9_NetworkEqualIffFiveFields ==
    op = "NetworkEqual" =>
        (ret <=> \E k \in 1..Len(pre) :
                    AgreeOn(pre[k], arg, {"ourAdd", "nextHop", "src", "dst", "ackId"}))

\* C9 witness: NetworkEqual returned true on a buffer whose only entry
\* differs from the signal in segsLeft.
C9_Witness ==
    /\ op = "NetworkEqual" /\ ret
    /\ Len(pre) = 1
    /\ Differing(pre[1], arg) = {"segsLeft"}
    /\ buf = <<>>

\* C10: PromiscEqual returns true if and only if some buffered entry equals
\* the signal on src, dst, segsLeft and ackId.
C10_PromiscEqualIffFourFields ==
    op = "PromiscEqual" =>
        (ret <=> \E k \in 1..Len(pre) :
                    AgreeOn(pre[k], arg, {"src", "dst", "segsLeft", "ackId"}))

\* C10 witness: PromiscEqual returned true on a buffer whose only entry
\* differs from the signal in both ourAdd and nextHop.
C10_Witness ==
    /\ op = "PromiscEqual" /\ ret
    /\ Len(pre) = 1
    /\ Differing(pre[1], arg) = {"ourAdd", "nextHop"}
    /\ buf = <<>>

\* C11: LinkEqual returns true if and only if some buffered entry equals
\* the signal on src, dst, ourAdd and nextHop.
C11_LinkEqualIffFourFields ==
    op = "LinkEqual" =>
        (ret <=> \E k \in 1..Len(pre) :
                    AgreeOn(pre[k], arg, {"src", "dst", "ourAdd", "nextHop"}))

\* C11 witness: LinkEqual returned true on a buffer whose only entry differs
\* from the signal in both ackId and segsLeft.
C11_Witness ==
    /\ op = "LinkEqual" /\ ret
    /\ Len(pre) = 1
    /\ Differing(pre[1], arg) = {"ackId", "segsLeft"}
    /\ buf = <<>>

\* The four matching operations and the fields each compares.
MatchOps == {"AllEqual", "NetworkEqual", "PromiscEqual", "LinkEqual"}

FieldsOf(name) ==
    CASE name = "AllEqual" -> {"ourAdd", "nextHop", "src", "dst", "ackId", "segsLeft"}
      [] name = "NetworkEqual" -> {"ourAdd", "nextHop", "src", "dst", "ackId"}
      [] name = "PromiscEqual" -> {"src", "dst", "segsLeft", "ackId"}
      [] name = "LinkEqual" -> {"src", "dst", "ourAdd", "nextHop"}

\* The positions of the entries of b that qualify for the signal s under the
\* fields fs.
Qualifying(b, s, fs) == {k \in 1..Len(b) : AgreeOn(b[k], s, fs)}

\* C12: a successful matching call removes exactly one entry, the earliest
\* one that qualifies under its fields; the other entries, later qualifying
\* ones included, stay in their order.
C12_MatchRemovesEarliestOnly ==
    (op \in MatchOps /\ ret) =>
        /\ Qualifying(pre, arg, FieldsOf(op)) # {}
        /\ Len(buf) = Len(pre) - 1
        /\ buf = Without(pre, Least(Qualifying(pre, arg, FieldsOf(op))))

\* C12 witness: two buffered entries qualified for a NetworkEqual or a
\* LinkEqual call, and the later one is what the call left.
C12_Witness ==
    /\ op \in {"NetworkEqual", "LinkEqual"} /\ ret
    /\ Len(pre) = 2
    /\ Qualifying(pre, arg, FieldsOf(op)) = {1, 2}
    /\ buf = <<pre[2]>>

\* C13: DropPacketWithNextHop removes every unexpired entry with the next
\* hop and leaves the unexpired entries with another next hop, unchanged and
\* in their order.
C13_DropRemovesAllForNextHop ==
    op = "DropPacketWithNextHop" =>
        /\ \A k \in 1..Len(buf) : buf[k].nextHop # hop
        /\ buf = SelectSeq(Unexpired(pre), LAMBDA x : x.nextHop # hop)

\* C13 witness: DropPacketWithNextHop met two unexpired entries with the
\* next hop and removed both.
C13_Witness ==
    /\ op = "DropPacketWithNextHop"
    /\ Len(Unexpired(pre)) = 2
    /\ \A k \in 1..2 : Unexpired(pre)[k].nextHop = hop
    /\ buf = <<>>

\* C14: Find leaves the buffer as it is, expired entries included, and
\* returns true exactly when some entry of the buffer, expired or not, has
\* the next hop.
C14_FindReadsOnly ==
    op = "Find" =>
        /\ buf = pre
        /\ ret <=> \E k \in 1..Len(pre) : pre[k].nextHop = hop

\* C14 witness: Find returned true although the only entry with the next
\* hop had expired, and the entry is still buffered.
C14_Witness ==
    /\ op = "Find" /\ ret
    /\ \E k \in 1..Len(buf) : buf[k].nextHop = hop
    /\ \A k \in 1..Len(buf) : buf[k].nextHop = hop => buf[k].expire < now

\* C15: GetSize returns the number of buffered entries whose deadline has
\* not passed and leaves the buffer holding exactly those entries.
C15_SizeCountsUnexpired ==
    op = "GetSize" =>
        /\ size = Len(Unexpired(pre))
        /\ buf = Unexpired(pre)

\* C15 witness: GetSize met an expired and an unexpired entry and returned 1.
C15_Witness ==
    /\ op = "GetSize"
    /\ Len(pre) = 2
    /\ size = 1
    /\ buf = <<pre[2]>>

\* C16: a buffered entry either was in the buffer before the latest call,
\* with the same deadline, or is the entry a successful Enqueue has just
\* appended with the deadline now + timeout; an Enqueue that returns false
\* leaves the caller's entry and every buffered deadline as they were.
C16_ExpireTimeSetOnce ==
    /\ \A k \in 1..Len(buf) :
            \/ buf[k] \in Range(pre)
            \/ /\ op = "Enqueue" /\ ret /\ k = Len(buf)
               /\ buf[k] = [arg EXCEPT !.expire = now + m_maintainBufferTimeout]
    /\ \A k \in 1..Len(buf) : \A j \in 1..Len(pre) :
            (AgreeOn(buf[k], pre[j], KeyFields) /\ ~(op = "Enqueue" /\ ret))
                => buf[k].expire = pre[j].expire
    /\ (op = "Enqueue" /\ ~ret) => entry = arg

\* C16 witness: a duplicate Enqueue was rejected at a time when a fresh
\* deadline would be later than the one the buffered entry has kept.
C16_Witness ==
    /\ op = "Enqueue" /\ ~ret
    /\ \E k \in 1..Len(buf) :
            /\ AgreeOn(buf[k], arg, KeyFields)
            /\ buf[k].expire < now + m_maintainBufferTimeout
            /\ buf[k] \in Range(pre)

\* C17: Purge removes every entry whose deadline has passed and no other,
\* and the entries that remain keep their order.
C17_PurgeRemovesExactlyExpired ==
    op = "Purge" =>
        /\ buf = Unexpired(pre)
        /\ \A k \in 1..Len(pre) : pre[k].expire < now <=> pre[k] \notin Range(buf)

\* C17 witness: Purge met an expired entry followed by an entry whose
\* deadline is the current time, and removed the former only.
C17_Witness ==
    /\ op = "Purge"
    /\ Len(pre) = 2
    /\ pre[1].expire < now /\ pre[2].expire = now
    /\ buf = <<pre[2]>>

\* C18: every operation is total: for every buffer state and every capacity,
\* 0 included, no call runs into undefined behaviour (such as erasing the
\* front of an empty vector).
C18_EveryOperationTotal == ~undefined

\* C19: no expired entry is ever matched or counted: Find returns true only
\* if an unexpired entry has the next hop, a matching call that succeeds
\* removes an unexpired entry, and GetSize counts unexpired entries only.
C19_NoExpiredMatchedOrCounted ==
    /\ (op = "Find" /\ ret) =>
           \E k \in 1..Len(pre) : pre[k].nextHop = hop /\ pre[k].expire >= now
    /\ (op \in MatchOps /\ ret) =>
           /\ Qualifying(pre, arg, FieldsOf(op)) # {}
           /\ pre[Least(Qualifying(pre, arg, FieldsOf(op)))].expire >= now
    /\ op = "GetSize" => size = Len(Unexpired(pre))

\* Whether each matching call would return true on the buffer for signal s.
AllEqualSucceeds(s) == \E k \in 1..Len(buf) : AllEqualTest(buf[k], s)
NetworkEqualSucceeds(s) == \E k \in 1..Len(buf) : NetworkEqualTest(buf[k], s)
PromiscEqualSucceeds(s) == \E k \in 1..Len(buf) : PromiscEqualTest(buf[k], s)
LinkEqualSucceeds(s) == \E k \in 1..Len(buf) : LinkEqualTest(buf[k], s)

\* C20 as stated: the four tests form a chain AllEqual, NetworkEqual,
\* PromiscEqual, LinkEqual: on every buffer and signal, a test that would
\* succeed makes every later test of the chain succeed.
C20_ChainStrictestToLoosest ==
    \A s \in Signals :
        /\ AllEqualSucceeds(s) => NetworkEqualSucceeds(s)
        /\ NetworkEqualSucceeds(s) => PromiscEqualSucceeds(s)
        /\ PromiscEqualSucceeds(s) => LinkEqualSucceeds(s)

\* C20 amended: AllEqual is the strictest test, and NetworkEqual is stricter
\* than LinkEqual: on every buffer and signal, if AllEqual would succeed so
\* would the other three, and if NetworkEqual would succeed so would
\* LinkEqual. PromiscEqual stands in no such relation to NetworkEqual or
\* LinkEqual.
C20_PartialOrderOfTests ==
    \A s \in Signals :
        /\ AllEqualSucceeds(s) =>
               /\ NetworkEqualSucceeds(s)
               /\ PromiscEqualSucceeds(s)
               /\ LinkEqualSucceeds(s)
        /\ NetworkEqualSucceeds(s) => LinkEqualSucceeds(s)

\* C20 witness: the buffer would satisfy AllEqual for one signal, and for
\* another NetworkEqual and LinkEqual but not PromiscEqual.
C20_Witness ==
    /\ \E s \in Signals : AllEqualSucceeds(s)
    /\ \E s \in Signals :
           /\ NetworkEqualSucceeds(s) /\ LinkEqualSucceeds(s)
           /\ ~PromiscEqualSucceeds(s)

\* C21: with room for five entries and no expiry, after enqueueing E1..E5
\* for the next hops N1..N5, Dequeue(N3) returns E3 and GetSize returns 4;
\* Find(N3) is then false; DropPacketWithNextHop(N1) then leaves E2, E4, E5
\* in that order and GetSize returns 3.
C21_Scenario ==
    /\ (step = 6 /\ op = "Dequeue") =>
           ret /\ entry = filled[3] /\ Len(buf) = 4
    /\ (step = 7 /\ op = "GetSize") => size = 4
    /\ (step = 8 /\ op = "Find") => ~ret
    /\ step >= 9 => buf = <<filled[2], filled[4], filled[5]>>
    /\ (step = 10 /\ op = "GetSize") => size = 3

\* C21 witness: the scenario has run to its end, with the clock advanced on
\* the way, and the last GetSize returned 3.
C21_Witness ==
    /\ step = 10 /\ op = "GetSize" /\ size = 3
    /\ now > 0
    /\ \A k \in 1..5 : filled[k].nextHop = k

\* The entries of b whose deadline has passed, in order.
Expired(b) == SelectSeq(b, LAMBDA x : x.expire < now)

\* C22: Enqueue, GetSize and DropPacketWithNextHop remove every expired
\* entry, whereas Find and the four matching operations do not purge: after
\* them every expired entry that was buffered is still there, except the one
\* entry a successful match removed.
C22_PurgeOnlyInThree ==
    /\ op \in {"Enqueue", "GetSize", "DropPacketWithNextHop"} =>
           Expired(buf) = <<>>
    /\ op = "Find" => Expired(buf) = Expired(pre)
    /\ op \in MatchOps =>
           \/ Expired(buf) = Expired(pre)
           \/ /\ ret
              /\ pre[Least(Qualifying(pre, arg, FieldsOf(op)))].expire < now
              /\ \E k \in 1..Len(Expired(pre)) :
                     Expired(buf) = Without(Expired(pre), k)

\* C22 witness: a successful matching call met two expired entries, removed
\* one and left the other.
C22_Witness ==
    /\ op \in MatchOps /\ ret
    /\ Len(Expired(pre)) = 2
    /\ Len(Expired(buf)) = 1

\* The entries the latest call removed.
Removed == Range(pre) \ Range(buf)

\* x left the buffer by timeout-driven purge, by a successful match, by
\* DropPacketWithNextHop or by capacity eviction in Enqueue.
LeftAsListed(x) ==
    \/ op \in PurgingOps /\ x.expire < now
    \/ op \in MatchOps /\ ret /\ AgreeOn(x, arg, FieldsOf(op))
    \/ op = "DropPacketWithNextHop" /\ x.nextHop = hop
    \/ /\ op = "Enqueue" /\ ret
       /\ Len(Unexpired(pre)) >= m_maxLen
       /\ x = Unexpired(pre)[1]

\* C23 as stated: an entry leaves the buffer only by a successful match, by
\* DropPacketWithNextHop, by capacity eviction in Enqueue or by
\* timeout-driven purge.
C23_LeavesOnlyAsListed == \A x \in Removed : LeftAsListed(x)

\* C23 amended: or by a successful Dequeue, which removes the entry it
\* hands back.
C23_LeavesAsListedOrDequeued ==
    \A x \in Removed :
        \/ LeftAsListed(x)
        \/ op = "Dequeue" /\ ret /\ x = entry /\ x.nextHop = hop

\* C23 witness: Dequeue removed an unexpired entry and left another one.
C23_Witness ==
    /\ op = "Dequeue" /\ ret
    /\ Removed = {entry}
    /\ entry.expire >= now
    /\ buf # <<>>

\* Every entry the buffer can hold, deadline included.
Stamped ==
    {[e EXCEPT !.expire = d] : e \in Forwarded, d \in 0..(MaxTime + MaxTimeout)}

\* C24: while the clock keeps advancing and purging operations keep being
\* called, every buffered entry that is never dequeued or matched is
\* eventually absent from the buffer.
C24_EventuallyReclaimed ==
    \A x \in Stamped : (x \in Range(buf)) ~> (x \notin Range(buf))

\* C24 witness: a call has removed entries nobody asked for, an entry whose
\* deadline had passed among them.
C24_Witness ==
    /\ op \in {"GetSize", "Enqueue"}
    /\ Removed # {}
    /\ \E x \in Removed : x.expire < now

\* The entries buffered before the latest call whose deadline is the
\* current time.
DueNow == {x \in Range(pre) : x.expire = now}

\* C25: expiry is strict. Purge removes an entry only when the clock is
\* strictly past its deadline; an entry whose deadline is the current time
\* is kept by Purge, counted by GetSize, handed back by Dequeue (when it is
\* the earliest unexpired entry for the next hop) and blocks a duplicate
\* Enqueue.
C25_ExpiryIsStrict ==
    /\ op = "Purge" => \A x \in Removed : x.expire < now
    /\ \A x \in DueNow :
        /\ op \in {"Purge", "GetSize"} => x \in Range(buf)
        /\ op = "GetSize" => size = Len(buf)
        /\ (op = "Dequeue" /\ x.nextHop = hop) =>
               /\ ret
               /\ x = Unexpired(pre)[Least(PositionsFor(Unexpired(pre), hop))] =>
                      entry = x
        /\ (op = "Enqueue" /\ AgreeOn(x, arg, KeyFields)) =>
               ~ret /\ x \in Range(buf)

\* C25 witness: after the clock has advanced, an Enqueue was rejected as a
\* duplicate of an entry whose deadline is the current time.
C25_Witness ==
    /\ op = "Enqueue" /\ ~ret
    /\ now > 0
    /\ \E x \in DueNow : AgreeOn(x, arg, KeyFields) /\ x \in Range(buf)

\* C26: a matching operation returns true if and only if it removed an
\* entry; when it returns false the buffer is as it was, and when Dequeue
\* returns false the buffer is as it was apart from the initial purge.
C26_TrueIffRemoved ==
    /\ op \in MatchOps =>
           /\ ret <=> Len(buf) = Len(pre) - 1
           /\ ~ret <=> buf = pre
    /\ (op = "Dequeue" /\ ~ret) => buf = Unexpired(pre)

\* C26 witness: a matching call returned false on a buffer holding an entry
\* that differs from the signal in one field only, and left the entry.
C26_Witness ==
    /\ op \in MatchOps /\ ~ret
    /\ buf # <<>>
    /\ \E k \in 1..Len(buf) : Cardinality(Differing(buf[k], arg)) = 1

\* C27: a successful Enqueue evicts at most one entry, and only when the
\* buffer still holds m_maxLen or more entries after the initial purge;
\* when the purge has freed room no unexpired entry is removed, and the
\* unexpired entries keep their order ahead of the new entry.
C27_EvictsOnlyWhenStillFull ==
    (op = "Enqueue" /\ ret) =>
        /\ Len(Unexpired(pre)) >= m_maxLen => buf = Append(Tail(Unexpired(pre)), entry)
        /\ Len(Unexpired(pre)) < m_maxLen => buf = Append(Unexpired(pre), entry)

\* C27 witness: Enqueue met a full buffer, its purge freed room, and the
\* unexpired entry stayed ahead of the new one.
C27_Witness ==
    /\ op = "Enqueue" /\ ret
    /\ Len(pre) = m_maxLen
    /\ Unexpired(pre) # <<>>
    /\ Len(Unexpired(pre)) < Len(pre)
    /\ buf = Append(Unexpired(pre), entry)

\* C28: on success Dequeue hands back an entry equal in every field, the
\* deadline included, to the entry it removed from the buffer; on not-found
\* the caller's entry is left as it was passed.
C28_DequeueHandsBackRemoved ==
    op = "Dequeue" =>
        IF ret
        THEN /\ entry \in Range(pre)
             /\ Range(Unexpired(pre)) \ Range(buf) = {entry}
        ELSE entry = arg

\* C28 witness: Dequeue overwrote a caller's entry that held other values
\* with the entry it removed, whose deadline is not the one passed in.
C28_Witness ==
    /\ op = "Dequeue" /\ ret
    /\ arg = BaseEntry
    /\ Differing(entry, arg) # {}
    /\ entry.expire # arg.expire
    /\ entry \notin Range(buf)

\* C29: with the timeout fixed and the clock monotonic, the buffered
\* entries are ordered by non-decreasing deadline from front to back, so
\* the expired entries a purge removes form a prefix of the vector, and an
\* entry evicted for capacity has the earliest deadline in the buffer.
C29_OrderedByDeadline ==
    /\ \A i, j \in 1..Len(buf) : i < j => buf[i].expire <= buf[j].expire
    /\ Expired(pre) = SubSeq(pre, 1, Len(Expired(pre)))
    /\ (op = "Enqueue" /\ ret) =>
           \A x \in Removed : \A y \in Range(pre) :
               x.expire >= now => x.expire <= y.expire

\* C29 witness: a purging call met two entries with different deadlines and
\* removed the front one alone, which had expired.
C29_Witness ==
    /\ op \in PurgingOps
    /\ Len(pre) = 2 /\ pre[1].expire < pre[2].expire
    /\ Expired(pre) = <<pre[1]>>
    /\ pre[2] \in Range(buf)

\* Enqueue took an entry for capacity: fewer entries are left than the
\* unexpired ones it met and the new one.
Evicted == op = "Enqueue" /\ ret /\ Len(buf) < Len(Unexpired(pre)) + 1

\* C30: the entry Enqueue evicts for capacity is never an expired one:
\* eviction happens only when m_maxLen unexpired entries are present, and
\* the evicted entry is the front one of them, its deadline not passed.
C30_EvictedIsUnexpired ==
    Evicted =>
        /\ Len(Unexpired(pre)) = m_maxLen
        /\ Removed \ Range(Expired(pre)) = {Unexpired(pre)[1]}
        /\ \A x \in Removed \ Range(Expired(pre)) : x.expire >= now
        /\ Expired(buf) = <<>>

\* C30 witness: after the clock has advanced, Enqueue evicted the front
\* entry, whose deadline is the current time, although nothing had expired.
C30_Witness ==
    /\ Evicted
    /\ now > 0
    /\ Expired(pre) = <<>>
    /\ pre[1].expire = now
    /\ pre[1] \notin Range(buf)

\* The positions of the entries of b with the six-field key of e.
WithKeyOf(b, e) == {k \in 1..Len(b) : AgreeOn(b[k], e, KeyFields)}

\* C31: Enqueue of an entry whose key equals that of a buffered entry whose
\* deadline has passed succeeds: the stale entry is purged, the new entry is
\* appended with a fresh deadline, and exactly one entry with the key is
\* buffered afterwards.
C31_StaleDuplicateReplaced ==
    (op = "Enqueue" /\ \E k \in WithKeyOf(pre, arg) : pre[k].expire < now) =>
        /\ ret
        /\ \A k \in WithKeyOf(pre, arg) : pre[k] \notin Range(buf)
        /\ buf[Len(buf)] = entry
        /\ entry.expire = now + m_maintainBufferTimeout
        /\ WithKeyOf(buf, arg) = {Len(buf)}

\* C31 witness: Enqueue replaced an expired entry of the same key while an
\* unexpired entry of another key stayed ahead of the new one.
C31_Witness ==
    /\ op = "Enqueue" /\ ret
    /\ \E k \in WithKeyOf(pre, arg) : pre[k].expire < now
    /\ Len(buf) = 2

\* C32, one call: after DropPacketWithNextHop no entry with the next hop,
\* expired or not, is buffered.
C32_NoneLeftForNextHop ==
    op = "DropPacketWithNextHop" => PositionsFor(buf, hop) = {}

\* C32, two calls: a Find for the same next hop that follows at once
\* returns false, and a second DropPacketWithNextHop for it changes nothing.
C32_ThenFindFalseDropIdle ==
    (op = "DropPacketWithNextHop" /\ hop' = hop) =>
        /\ op' = "Find" => ~ret'
        /\ op' = "DropPacketWithNextHop" => m_maintainBuffer' = m_maintainBuffer

\* C32: after DropPacketWithNextHop(n) the buffer holds no entry with next
\* hop n, Find(n) is false, and dropping again at once changes nothing.
C32_DropIsFinal == []C32_NoneLeftForNextHop /\ [][C32_ThenFindFalseDropIdle]_vars

\* C32 witness: DropPacketWithNextHop removed an unexpired entry with the
\* next hop and left an entry for another next hop.
C32_Witness ==
    /\ op = "DropPacketWithNextHop"
    /\ \E x \in Removed : x.nextHop = hop /\ x.expire >= now
    /\ buf # <<>>

\* C33, one call: Dequeue succeeds exactly when an unexpired entry with the
\* next hop is buffered.
C33_DequeueIffUnexpired ==
    op = "Dequeue" =>
        (ret <=> \E k \in PositionsFor(pre, hop) : pre[k].expire >= now)

\* C33, two calls: a Dequeue that follows at once a Find which returned
\* false for the same next hop returns false.
C33_FindFalseThenDequeueFalse ==
    (op = "Find" /\ ~ret /\ op' = "Dequeue" /\ hop' = hop) => ~ret'

\* C33: Find and Dequeue agree one way only: after Find(n) returned false
\* Dequeue(n) reports not-found, and Dequeue(n) succeeds exactly when an
\* unexpired entry with next hop n is buffered (an expired one makes Find
\* true and Dequeue false).
C33_FindDequeueOneWay ==
    []C33_DequeueIffUnexpired /\ [][C33_FindFalseThenDequeueFalse]_vars

\* C33 witness: Dequeue reported not-found on a buffer in which Find for the
\* next hop meets an entry, an expired one.
C33_Witness ==
    /\ op = "Dequeue" /\ ~ret
    /\ PositionsFor(pre, hop) # {}
    /\ \A k \in PositionsFor(pre, hop) : pre[k].expire < now

\* C34, first step: an AllEqual with the same six fields that follows at
\* once a successful Enqueue returns true and removes the entry just
\* inserted, the last one, and nothing else.
C34_EnqueueThenAllEqual ==
    (op = "Enqueue" /\ ret /\ op' = "AllEqual" /\ AgreeOn(arg', arg, KeyFields)) =>
        /\ ret'
        /\ m_maintainBuffer[Len(m_maintainBuffer)] = entry
        /\ m_maintainBuffer' = SubSeq(m_maintainBuffer, 1, Len(m_maintainBuffer) - 1)

\* C34, second step: an Enqueue of the same six fields that follows at once
\* a successful AllEqual succeeds.
C34_AllEqualThenEnqueue ==
    (op = "AllEqual" /\ ret /\ op' = "Enqueue" /\ AgreeOn(arg', arg, KeyFields)) =>
        ret' /\ m_maintainBuffer'[Len(m_maintainBuffer')] = entry'

\* C34: round trip. After a successful Enqueue(e), AllEqual on the same six
\* fields returns true and removes exactly the entry just inserted, leaving
\* what Enqueue's purge and eviction had left; Enqueue(e) then succeeds
\* again.
C34_RoundTrip ==
    [][C34_EnqueueThenAllEqual]_vars /\ [][C34_AllEqualThenEnqueue]_vars

\* C34 witness: AllEqual removed the last of two entries, one stamped at
\* the current time, and left the other.
C34_Witness ==
    /\ op = "AllEqual" /\ ret
    /\ Len(pre) = 2
    /\ AgreeOn(pre[2], arg, KeyFields)
    /\ pre[2].expire = now + m_maintainBufferTimeout
    /\ buf = <<pre[1]>>

\* The positions of the buffered entries that pass each test for signal s.
AllEqualAt(s) == {k \in 1..Len(buf) : AllEqualTest(buf[k], s)}
NetworkEqualAt(s) == {k \in 1..Len(buf) : NetworkEqualTest(buf[k], s)}
PromiscEqualAt(s) == {k \in 1..Len(buf) : PromiscEqualTest(buf[k], s)}
LinkEqualAt(s) == {k \in 1..Len(buf) : LinkEqualTest(buf[k], s)}

\* C35: on every buffer and signal, an entry that passes AllEqual's test
\* passes the tests of NetworkEqual, PromiscEqual and LinkEqual, an entry
\* that passes NetworkEqual's passes LinkEqual's, and at most one buffered
\* entry passes AllEqual's.
C35_FieldSetInclusion ==
    \A s \in Signals :
        /\ AllEqualAt(s) \subseteq
               (NetworkEqualAt(s) \cap PromiscEqualAt(s) \cap LinkEqualAt(s))
        /\ NetworkEqualAt(s) \subseteq LinkEqualAt(s)
        /\ Cardinality(AllEqualAt(s)) <= 1

\* C35 witness: for some signal one of two buffered entries passes
\* AllEqual's test while both pass NetworkEqual's and LinkEqual's.
C35_Witness ==
    \E s \in Signals :
        /\ Cardinality(AllEqualAt(s)) = 1
        /\ Cardinality(NetworkEqualAt(s)) = 2
        /\ Cardinality(LinkEqualAt(s)) = 2

\* The smaller of two numbers.
Min(a, b) == IF a <= b THEN a ELSE b

\* C36: with m_maxLen >= 1, a successful Enqueue leaves exactly
\* min(k + 1, m_maxLen) entries, k being the number of unexpired entries
\* buffered just before the call.
C36_SizeAfterEnqueue ==
    (op = "Enqueue" /\ ret /\ m_maxLen >= 1) =>
        Len(buf) = Min(Len(Unexpired(pre)) + 1, m_maxLen)

\* C36 witness: Enqueue met a buffer of two or more unexpired entries,
\* filled to its capacity, and left it at its capacity.
C36_Witness ==
    /\ op = "Enqueue" /\ ret
    /\ m_maxLen > 1
    /\ Len(Unexpired(pre)) = m_maxLen
    /\ Len(buf) = m_maxLen

====
